---- MODULE Spec2Model ----
(***************************************************************************)
(* A model of the CHIP-8 interpreter: the nibble extractor (bits.rs), the  *)
(* decoder (decode.rs) and the machine with its execute and cycle          *)
(* functions (chip8.rs), driven the way main.rs and the tests drive them.  *)
(***************************************************************************)
EXTENDS Integers, Sequences, FiniteSets, TLC

VARIABLES
    registers,       \* Chip8.registers: [Wrapping<u8>; 16]
    memory,          \* Chip8.memory: [u8; 4096], kept as the bytes that differ from the image new() builds
    pc,              \* Chip8.pc: usize
    index_register,  \* Chip8.index_register: Wrapping<u16>
    delay_timer,     \* Chip8.delay_timer: u8
    sound_timer,     \* Chip8.sound_timer: u8
    display,         \* Chip8.display: the set of lit cells <<pix_y, pix_x>>
    stack,           \* Chip8.stack: Vec<usize>
    last_clock,      \* Chip8.last_clock: Instant, in nanoseconds
    rng,             \* Chip8.rng: the number of values drawn from the seeded stream
    halted,          \* TRUE once a panic has ended the process
    overflow_checks, \* the build profile: TRUE when integer overflow panics (debug), FALSE when it wraps
    time,            \* main's `time`, the instant handed to the next cycle
    ncycles,         \* the number of cycles the host has run
    input,           \* what the caller chose: the word to decode, the operand registers, or the program loaded
    call             \* the last call made, its arguments, its result and the state before it

vars == <<registers, memory, pc, index_register, delay_timer, sound_timer,
          display, stack, last_clock, rng, halted, overflow_checks, time, ncycles, input, call>>

(***************************************************************************)
(* Integer widths and bit operations                                       *)
(***************************************************************************)
U8 == 256
U16 == 65536

RECURSIVE Pow2(_)
Pow2(n) == IF n = 0 THEN 1 ELSE 2 * Pow2(n - 1)

\* a & b on unsigned integers
RECURSIVE BitAnd(_, _)
BitAnd(a, b) ==
    IF a = 0 \/ b = 0 THEN 0
    ELSE (IF a % 2 = 1 /\ b % 2 = 1 THEN 1 ELSE 0) + 2 * BitAnd(a \div 2, b \div 2)

\* a | b on unsigned integers
RECURSIVE BitOr(_, _)
BitOr(a, b) ==
    IF a = 0 THEN b
    ELSE IF b = 0 THEN a
    ELSE (IF a % 2 = 1 \/ b % 2 = 1 THEN 1 ELSE 0) + 2 * BitOr(a \div 2, b \div 2)

\* a ^ b on unsigned integers
RECURSIVE BitXor(_, _)
BitXor(a, b) ==
    IF a = 0 THEN b
    ELSE IF b = 0 THEN a
    ELSE (IF a % 2 # b % 2 THEN 1 ELSE 0) + 2 * BitXor(a \div 2, b \div 2)

\* The value of a call whose assertion failed or that panicked.
Panic == 0 - 1

(***************************************************************************)
(* bits.rs                                                                 *)
(***************************************************************************)
\* assert!(num_bits < 16); (1 << num_bits) - 1
n_set_bits(num_bits) ==
    IF ~(num_bits < 16) THEN Panic
    ELSE Pow2(num_bits) - 1

get_nibbles_noshift(instruction, index, num_nibbles) ==
    IF ~(num_nibbles >= 1) THEN Panic
    ELSE IF ~(num_nibbles <= 4) THEN Panic
    ELSE LET mask == n_set_bits(num_nibbles * 4)
         IN  IF mask = Panic THEN Panic ELSE BitAnd(instruction, mask)

get_nibbles_offbyone(instruction, index, num_nibbles) ==
    IF ~(num_nibbles >= 1) THEN Panic
    ELSE IF ~(num_nibbles <= 4) THEN Panic
    ELSE LET right_index == index + num_nibbles
         IN  IF ~(right_index <= 3) THEN Panic
             ELSE LET mask == n_set_bits(num_nibbles * 4)
                  IN  IF mask = Panic THEN Panic
                      ELSE BitAnd(instruction \div Pow2((3 - right_index) * 4), mask)

get_nibbles(instruction, index, num_nibbles) ==
    IF ~(num_nibbles >= 1) THEN Panic
    ELSE IF ~(num_nibbles <= 4) THEN Panic
    ELSE LET right_index == index + num_nibbles - 1
         IN  IF ~(right_index <= 3) THEN Panic
             ELSE LET mask == n_set_bits(num_nibbles * 4)
                  IN  IF mask = Panic THEN Panic
                      ELSE BitAnd(instruction \div Pow2((3 - right_index) * 4), mask)

\* assert!(index <= 3); get_nibbles(instruction, index, 1) as u8
get_nibble(instruction, index) ==
    IF ~(index <= 3) THEN Panic
    ELSE LET v == get_nibbles(instruction, index, 1)
         IN  IF v = Panic THEN Panic ELSE v % U8

\* `x as u8` of a u16 that may be a failed call
AsU8(v) == IF v = Panic THEN Panic ELSE v % U8

(***************************************************************************)
(* decode.rs                                                               *)
(***************************************************************************)
None == [op |-> "None"]
Panicked == [op |-> "Panic"]

\* A call that panicked while an operand was computed never builds the value.
Some(instr, operands) == IF Panic \in operands THEN Panicked ELSE instr

decode(instruction) ==
    LET top == get_nibble(instruction, 0)
        n1 == get_nibble(instruction, 1)
        n2 == get_nibble(instruction, 2)
        n3 == get_nibble(instruction, 3)
        nnn == get_nibbles(instruction, 1, 3)
        kk == get_nibbles(instruction, 2, 2)
    IN  CASE top = Panic -> Panicked
          [] top = 0 ->
                IF nnn = Panic THEN Panicked
                ELSE IF nnn = 224 THEN [op |-> "ClearScreen"]
                ELSE IF nnn = 238 THEN [op |-> "Return"]
                ELSE None
          [] top = 1 -> Some([op |-> "Jump", dest |-> nnn], {nnn})
          [] top = 2 -> Some([op |-> "CallSubroutine", dest |-> nnn], {nnn})
          [] top = 3 -> Some([op |-> "SkipEQ", register |-> n1, value |-> AsU8(kk)], {n1, kk})
          [] top = 4 -> Some([op |-> "SkipNEQ", register |-> n1, value |-> AsU8(kk)], {n1, kk})
          [] top = 5 -> Some([op |-> "SkipEQR", register1 |-> n1, register2 |-> n2], {n1, n2})
          [] top = 6 -> Some([op |-> "SetRegister", register |-> n1, value |-> AsU8(kk)], {n1, kk})
          [] top = 7 -> Some([op |-> "AddToRegister", register |-> n1, value |-> AsU8(kk)], {n1, kk})
          [] top = 8 ->
                IF n3 = Panic THEN Panicked
                ELSE IF n3 = 0
                     THEN Some([op |-> "MovRegister", register1 |-> n1, register2 |-> n2], {n1, n2})
                ELSE None
          [] top = 9 -> Some([op |-> "SkipNEQR", register1 |-> n1, register2 |-> n2], {n1, n2})
          [] top = 10 -> Some([op |-> "SetIndexRegister", value |-> nnn], {nnn})
          [] top = 11 -> None
          [] top = 12 -> Some([op |-> "Random", register |-> n1, value |-> AsU8(kk)], {n1, kk})
          [] top = 13 -> Some([op |-> "Draw", x_r |-> n1, y_r |-> n2, height |-> n3], {n1, n2, n3})
          [] top = 14 ->
                IF kk = Panic THEN Panicked
                ELSE IF kk = 158 THEN Some([op |-> "SkipPressed", key |-> n1], {n1})
                ELSE IF kk = 161 THEN Some([op |-> "SkipNotPressed", key |-> n1], {n1})
                ELSE None
          [] top = 15 ->
                IF n1 = Panic \/ kk = Panic THEN Panicked
                ELSE IF kk = 7 THEN [op |-> "GetDelayTimer", register |-> n1]
                ELSE IF kk = 21 THEN [op |-> "SetDelayTimer", register |-> n1]
                ELSE IF kk = 30 THEN [op |-> "AddToIndex", register |-> n1]
                ELSE None
          [] OTHER -> Panicked   \* panic!("Impossible instruction")

(***************************************************************************)
(* chip8.rs: constants and construction                                    *)
(***************************************************************************)
INIT_INDEX == 512
SCREEN_WIDTH == 64
SCREEN_HEIGHT == 32
MEMORY_SIZE == 4096

FONT == <<
    240, 144, 144, 144, 240,   \* 0
    32, 96, 32, 32, 112,       \* 1
    240, 16, 240, 128, 240,    \* 2
    240, 16, 240, 16, 240,     \* 3
    144, 144, 240, 16, 16,     \* 4
    240, 128, 240, 16, 240,    \* 5
    240, 128, 240, 144, 240,   \* 6
    240, 16, 32, 64, 64,       \* 7
    240, 144, 240, 144, 240,   \* 8
    240, 144, 240, 16, 240,    \* 9
    240, 144, 240, 144, 144,   \* A
    224, 144, 224, 144, 224,   \* B
    240, 128, 128, 128, 240,   \* C
    224, 144, 144, 144, 224,   \* D
    240, 128, 240, 128, 240,   \* E
    240, 128, 240, 128, 128    \* F
>>

\* Option<u8>::None for key_pressed
NoKey == 0 - 1

\* memory after `memory: [0; 4096]` and the copy of FONT to memory[0..80]
FontImage(a) == IF a < Len(FONT) THEN FONT[a + 1] ELSE 0

\* memory[a]; the variable keeps only the bytes that differ from FontImage
MemRead(mem, a) == IF a \in DOMAIN mem THEN mem[a] ELSE FontImage(a)

\* memory[a] = v
MemWrite(mem, a, v) ==
    IF v = FontImage(a)
    THEN [b \in (DOMAIN mem) \ {a} |-> mem[b]]
    ELSE [b \in (DOMAIN mem) \cup {a} |-> IF b = a THEN v ELSE mem[b]]

\* Chip8::new(start)
new(start) ==
    [registers |-> [i \in 0..15 |-> 0],
     memory |-> [a \in {} |-> 0],
     pc |-> INIT_INDEX,
     index_register |-> 0,
     delay_timer |-> 0,
     sound_timer |-> 0,
     display |-> {},
     stack |-> <<>>,
     last_clock |-> start,
     rng |-> 0]

\* Chip8::read_program on a stream of 16-bit big-endian words: the bytes that fit
\* are copied to memory[INIT_INDEX ..]
RECURSIVE WriteWords(_, _, _)
WriteWords(mem, words, i) ==
    IF i > Len(words) \/ INIT_INDEX + 2 * (i - 1) + 1 >= MEMORY_SIZE THEN mem
    ELSE WriteWords(
            MemWrite(MemWrite(mem, INIT_INDEX + 2 * (i - 1), words[i] \div U8),
                     INIT_INDEX + 2 * (i - 1) + 1, words[i] % U8),
            words, i + 1)

read_program(self, words) == [self EXCEPT !.memory = WriteWords(self.memory, words, 1)]

\* Chip8::get_instruction
get_instruction(self) ==
    BitOr(MemRead(self.memory, self.pc + 1), MemRead(self.memory, self.pc) * U8)

\* the bound taken to include the last byte of memory
pc_inbounds_inclusive(self) == self.pc >= INIT_INDEX /\ self.pc <= 4095

\* Chip8::pc_inbounds
pc_inbounds(self) == self.pc >= INIT_INDEX /\ self.pc < 4095

(***************************************************************************)
(* chip8.rs: Chip8::execute, one operator per arm of the match             *)
(***************************************************************************)
Complete(self) == [st |-> self, ret |-> "Complete"]
RedrawRequested(self) == [st |-> self, ret |-> "RedrawRequested"]
Abort(self) == [st |-> self, ret |-> "Panic"]

\* the modulus of usize arithmetic; TLC's integers are 32-bit, so the model's usize is 30 bits wide
USIZE == 1073741824

\* the next u8 of StdRng::seed_from_u64(0) after n draws: a fixed stream
StdRngGen(n) == (n * 151 + 89) % U8

\* the screen cleared without the redraw signal
ClearScreen_quiet(self) == Complete([self EXCEPT !.display = {}])

ClearScreen(self) == RedrawRequested([self EXCEPT !.display = {}])

\* the pop of an empty stack passed over
Return_unchecked(self) ==
    IF Len(self.stack) = 0 THEN Complete(self)
    ELSE Complete([self EXCEPT !.pc = self.stack[Len(self.stack)],
                               !.stack = SubSeq(self.stack, 1, Len(self.stack) - 1)])

Return(self) ==
    IF Len(self.stack) = 0 THEN Abort(self)
    ELSE Complete([self EXCEPT !.pc = self.stack[Len(self.stack)],
                               !.stack = SubSeq(self.stack, 1, Len(self.stack) - 1)])

Jump(self, dest) == Complete([self EXCEPT !.pc = dest])

\* the address of the call itself pushed
CallSubroutine_push_fetch_address(self, dest) ==
    Complete([self EXCEPT !.stack = Append(self.stack, self.pc - 2), !.pc = dest])

CallSubroutine(self, dest) ==
    Complete([self EXCEPT !.stack = Append(self.stack, self.pc), !.pc = dest])

SkipEQ(self, register, value) ==
    IF self.registers[register] = value
    THEN Complete([self EXCEPT !.pc = self.pc + 2]) ELSE Complete(self)

SkipNEQ(self, register, value) ==
    IF self.registers[register] # value
    THEN Complete([self EXCEPT !.pc = self.pc + 2]) ELSE Complete(self)

SkipEQR(self, register1, register2) ==
    IF self.registers[register1] = self.registers[register2]
    THEN Complete([self EXCEPT !.pc = self.pc + 2]) ELSE Complete(self)

\* the skip taken by a single byte
SkipNEQR_one_byte(self, register1, register2) ==
    IF self.registers[register1] # self.registers[register2]
    THEN Complete([self EXCEPT !.pc = self.pc + 1]) ELSE Complete(self)

SkipNEQR(self, register1, register2) ==
    IF self.registers[register1] # self.registers[register2]
    THEN Complete([self EXCEPT !.pc = self.pc + 2]) ELSE Complete(self)

SetRegister(self, register, value) ==
    Complete([self EXCEPT !.registers[register] = value])

AddToRegister(self, register, value) ==
    Complete([self EXCEPT !.registers[register] = (self.registers[register] + value) % U8])

MovRegister(self, register1, register2) ==
    Complete([self EXCEPT !.registers[register1] = self.registers[register2]])

BinaryOr(self, register1, register2) ==
    Complete([self EXCEPT !.registers[register1] =
                BitOr(self.registers[register1], self.registers[register2])])

BinaryAnd(self, register1, register2) ==
    Complete([self EXCEPT !.registers[register1] =
                BitAnd(self.registers[register1], self.registers[register2])])

BinaryXor(self, register1, register2) ==
    Complete([self EXCEPT !.registers[register1] =
                BitXor(self.registers[register1], self.registers[register2])])

\* the flag read from the second operand, as the subtractions do
Add_flag_from_operand(self, register1, register2) ==
    LET added == [self.registers EXCEPT ![register1] =
                    (self.registers[register1] + self.registers[register2]) % U8]
        flag == IF added[register1] < added[register2] THEN 1 ELSE 0
    IN  Complete([self EXCEPT !.registers = [added EXCEPT ![15] = flag]])

Add(self, register1, register2) ==
    LET saved_val == self.registers[register1]
        added == [self.registers EXCEPT ![register1] =
                    (self.registers[register1] + self.registers[register2]) % U8]
        flag == IF added[register1] < saved_val \/ added[register1] < added[register1]
                THEN 1 ELSE 0
    IN  Complete([self EXCEPT !.registers = [added EXCEPT ![15] = flag]])

SubtractForward(self, register1, register2) ==
    LET subbed == [self.registers EXCEPT ![register1] =
                    (self.registers[register1] - self.registers[register2]) % U8]
        flag == IF subbed[register1] < subbed[register2] THEN 0 ELSE 1
    IN  Complete([self EXCEPT !.registers = [subbed EXCEPT ![15] = flag]])

\* the comparison of SubtractForward copied without turning it round
SubtractBackward_lt(self, register1, register2) ==
    LET subbed == [self.registers EXCEPT ![register1] =
                    (self.registers[register2] - self.registers[register1]) % U8]
        flag == IF subbed[register1] < subbed[register2] THEN 0 ELSE 1
    IN  Complete([self EXCEPT !.registers = [subbed EXCEPT ![15] = flag]])

SubtractBackward(self, register1, register2) ==
    LET subbed == [self.registers EXCEPT ![register1] =
                    (self.registers[register2] - self.registers[register1]) % U8]
        flag == IF subbed[register1] > subbed[register2] THEN 0 ELSE 1
    IN  Complete([self EXCEPT !.registers = [subbed EXCEPT ![15] = flag]])

\* the shift of the original machine: register2 shifted into register1, the bit
\* shifted out put in the flag register
ShiftRight_legacy(self, register1, register2) ==
    Complete([self EXCEPT !.registers =
        [[self.registers EXCEPT ![register1] = self.registers[register2] \div 2]
            EXCEPT ![15] = self.registers[register2] % 2]])

ShiftRight(self, register1, register2) ==
    Complete([self EXCEPT !.registers[register1] = self.registers[register1] \div 2])

ShiftLeft(self, register1, register2) ==
    Complete([self EXCEPT !.registers[register1] = (self.registers[register1] * 2) % U8])

SetIndexRegister(self, value) == Complete([self EXCEPT !.index_register = value])

\* the generator left where it was
Random_same_draw(self, register, value) ==
    Complete([self EXCEPT !.registers[register] = BitAnd(StdRngGen(self.rng), value)])

Random(self, register, value) ==
    LET num == StdRngGen(self.rng)
    IN  Complete([self EXCEPT !.registers[register] = BitAnd(num, value),
                               !.rng = self.rng + 1])

\* the bits of the sprite row taken from the least significant end
SpriteCells_lsb_first(sprite_row, x, pix_y) ==
    {<<pix_y, x + bit_pos>> :
        bit_pos \in {b \in 0..7 : /\ BitAnd(Pow2(b), sprite_row) # 0
                                  /\ x + b < SCREEN_WIDTH
                                  /\ pix_y < SCREEN_HEIGHT}}

\* the cells one sprite row toggles: the set bits that fall on the screen
SpriteCells(sprite_row, x, pix_y) ==
    {<<pix_y, x + 7 - bit_pos>> :
        bit_pos \in {b \in 0..7 : /\ BitAnd(Pow2(b), sprite_row) # 0
                                  /\ x + 7 - b < SCREEN_WIDTH
                                  /\ pix_y < SCREEN_HEIGHT}}

\* the cells switched on instead of toggled
Toggle_set(disp, cells) == disp \cup cells

\* display[pix_y][pix_x] ^= true for every cell of `cells`
Toggle(disp, cells) == (disp \ cells) \cup (cells \ disp)

RECURSIVE DrawRows(_, _, _, _, _)
DrawRows(self, x, y, row_index, height) ==
    IF row_index >= height THEN RedrawRequested(self)
    ELSE LET sum == self.index_register + row_index
         IN  IF sum >= U16 /\ overflow_checks THEN Abort(self)
             ELSE LET mem_location == sum % U16
                  IN  IF mem_location >= MEMORY_SIZE THEN Abort(self)
                      ELSE DrawRows(
                            [self EXCEPT !.display =
                                Toggle(self.display,
                                       SpriteCells(MemRead(self.memory, mem_location),
                                                   x, y + row_index))],
                            x, y, row_index + 1, height)

Draw(self, x_r, y_r, height) ==
    DrawRows(self, self.registers[x_r] % SCREEN_WIDTH,
             self.registers[y_r] % SCREEN_HEIGHT, 0, height)

SkipPressed(self, key, key_pressed) ==
    IF key_pressed # NoKey /\ self.registers[key] = key_pressed
    THEN Complete([self EXCEPT !.pc = self.pc + 2]) ELSE Complete(self)

\* no skip without a key
SkipNotPressed_needs_key(self, key, key_pressed) ==
    IF key_pressed # NoKey /\ self.registers[key] # key_pressed
    THEN Complete([self EXCEPT !.pc = self.pc + 2]) ELSE Complete(self)

SkipNotPressed(self, key, key_pressed) ==
    IF key_pressed # NoKey
    THEN IF self.registers[key] # key_pressed
         THEN Complete([self EXCEPT !.pc = self.pc + 2]) ELSE Complete(self)
    ELSE Complete([self EXCEPT !.pc = self.pc + 2])

GetDelayTimer(self, register) ==
    Complete([self EXCEPT !.registers[register] = self.delay_timer])

GetKey(self, register, key_pressed) ==
    IF key_pressed # NoKey
    THEN Complete([self EXCEPT !.registers[register] = key_pressed])
    ELSE IF self.pc >= 2 THEN Complete([self EXCEPT !.pc = self.pc - 2])
    ELSE IF overflow_checks THEN Abort(self)
    ELSE Complete([self EXCEPT !.pc = (self.pc - 2) % USIZE])

FontChar(self, register) ==
    Complete([self EXCEPT !.index_register = BitAnd(self.registers[register], 15) * 5])

SetDelayTimer(self, register) ==
    Complete([self EXCEPT !.delay_timer = self.registers[register]])

SetSoundTimer(self, register) ==
    Complete([self EXCEPT !.sound_timer = self.registers[register]])

\* the comparison made non-strict
AddToIndex_le(self, register) ==
    LET saved_val == self.index_register
        added == (self.index_register + self.registers[register]) % U16
        flag == IF added <= saved_val THEN 1 ELSE 0
    IN  Complete([self EXCEPT !.index_register = added, !.registers[15] = flag])

AddToIndex(self, register) ==
    LET saved_val == self.index_register
        added == (self.index_register + self.registers[register]) % U16
        flag == IF added < saved_val THEN 1 ELSE 0
    IN  Complete([self EXCEPT !.index_register = added, !.registers[15] = flag])

\* for i in (0..3).rev() { memory[index + i] = val % 10; val /= 10 }
RECURSIVE RegToDecimalFrom(_, _, _)
RegToDecimalFrom(self, val, i) ==
    IF i < 0 THEN Complete(self)
    ELSE IF self.index_register + i >= MEMORY_SIZE THEN Abort(self)
    ELSE RegToDecimalFrom(
            [self EXCEPT !.memory = MemWrite(self.memory, self.index_register + i, val % 10)],
            val \div 10, i - 1)

\* the loop over (0..2).rev(): two digits only
RegToDecimal_two_digits(self, register) ==
    RegToDecimalFrom(self, self.registers[register], 1)

RegToDecimal(self, register) == RegToDecimalFrom(self, self.registers[register], 2)

\* for i in 0..=register { memory[index + i] = registers[i] }
RECURSIVE StoreMemoryFrom(_, _, _)
StoreMemoryFrom(self, register, i) ==
    IF i > register THEN Complete(self)
    ELSE IF self.index_register + i >= MEMORY_SIZE THEN Abort(self)
    ELSE StoreMemoryFrom(
            [self EXCEPT !.memory = MemWrite(self.memory, self.index_register + i,
                                             self.registers[i])],
            register, i + 1)

StoreMemory(self, register) == StoreMemoryFrom(self, register, 0)

\* for i in 0..=register { registers[i] = memory[index + i] }
RECURSIVE LoadMemoryFrom(_, _, _)
LoadMemoryFrom(self, register, i) ==
    IF i > register THEN Complete(self)
    ELSE IF self.index_register + i >= MEMORY_SIZE THEN Abort(self)
    ELSE LoadMemoryFrom(
            [self EXCEPT !.registers[i] = MemRead(self.memory, self.index_register + i)],
            register, i + 1)

\* the load over 0..register, the last register left out
LoadMemory_exclusive(self, register) == LoadMemoryFrom(self, register - 1, 0)

LoadMemory(self, register) == LoadMemoryFrom(self, register, 0)

execute(self, instruction, key_pressed) ==
    LET i == instruction
    IN  CASE i.op = "ClearScreen" -> ClearScreen(self)
          [] i.op = "Return" -> Return(self)
          [] i.op = "Jump" -> Jump(self, i.dest)
          [] i.op = "CallSubroutine" -> CallSubroutine(self, i.dest)
          [] i.op = "SkipEQ" -> SkipEQ(self, i.register, i.value)
          [] i.op = "SkipNEQ" -> SkipNEQ(self, i.register, i.value)
          [] i.op = "SkipEQR" -> SkipEQR(self, i.register1, i.register2)
          [] i.op = "SkipNEQR" -> SkipNEQR(self, i.register1, i.register2)
          [] i.op = "SetRegister" -> SetRegister(self, i.register, i.value)
          [] i.op = "AddToRegister" -> AddToRegister(self, i.register, i.value)
          [] i.op = "MovRegister" -> MovRegister(self, i.register1, i.register2)
          [] i.op = "BinaryOr" -> BinaryOr(self, i.register1, i.register2)
          [] i.op = "BinaryAnd" -> BinaryAnd(self, i.register1, i.register2)
          [] i.op = "BinaryXor" -> BinaryXor(self, i.register1, i.register2)
          [] i.op = "Add" -> Add(self, i.register1, i.register2)
          [] i.op = "SubtractForward" -> SubtractForward(self, i.register1, i.register2)
          [] i.op = "SubtractBackward" -> SubtractBackward(self, i.register1, i.register2)
          [] i.op = "ShiftRight" -> ShiftRight(self, i.register1, i.register2)
          [] i.op = "ShiftLeft" -> ShiftLeft(self, i.register1, i.register2)
          [] i.op = "SetIndexRegister" -> SetIndexRegister(self, i.value)
          [] i.op = "Random" -> Random(self, i.register, i.value)
          [] i.op = "Draw" -> Draw(self, i.x_r, i.y_r, i.height)
          [] i.op = "SkipPressed" -> SkipPressed(self, i.key, key_pressed)
          [] i.op = "SkipNotPressed" -> SkipNotPressed(self, i.key, key_pressed)
          [] i.op = "GetDelayTimer" -> GetDelayTimer(self, i.register)
          [] i.op = "GetKey" -> GetKey(self, i.register, key_pressed)
          [] i.op = "FontChar" -> FontChar(self, i.register)
          [] i.op = "SetDelayTimer" -> SetDelayTimer(self, i.register)
          [] i.op = "SetSoundTimer" -> SetSoundTimer(self, i.register)
          [] i.op = "AddToIndex" -> AddToIndex(self, i.register)
          [] i.op = "RegToDecimal" -> RegToDecimal(self, i.register)
          [] i.op = "StoreMemory" -> StoreMemory(self, i.register)
          [] i.op = "LoadMemory" -> LoadMemory(self, i.register)

(***************************************************************************)
(* chip8.rs: Chip8::cycle                                                  *)
(***************************************************************************)
\* Duration::from_secs_f32(1.0) / 60, in nanoseconds
TIME_60HZ == 16666666

\* now.duration_since(earlier): zero when `earlier` is later than `now`
duration_since(now, earlier) == IF now >= earlier THEN now - earlier ELSE 0

\* the conditional timer update with wrapping decrements
clock_wrapping(self, now) ==
    IF duration_since(now, self.last_clock) >= TIME_60HZ
    THEN [self EXCEPT
            !.delay_timer = (self.delay_timer + U8 - 1) % U8,
            !.sound_timer = (self.sound_timer + U8 - 1) % U8,
            !.last_clock = now]
    ELSE self

\* the conditional timer update with the baseline never moved
clock_keeps_baseline(self, now) ==
    IF duration_since(now, self.last_clock) >= TIME_60HZ
    THEN [self EXCEPT
            !.delay_timer = IF self.delay_timer > 0 THEN self.delay_timer - 1 ELSE 0,
            !.sound_timer = IF self.sound_timer > 0 THEN self.sound_timer - 1 ELSE 0]
    ELSE self

\* the conditional timer update of cycle
clock(self, now) ==
    IF duration_since(now, self.last_clock) >= TIME_60HZ
    THEN [self EXCEPT
            !.delay_timer = IF self.delay_timer > 0 THEN self.delay_timer - 1 ELSE 0,
            !.sound_timer = IF self.sound_timer > 0 THEN self.sound_timer - 1 ELSE 0,
            !.last_clock = now]
    ELSE self

\* cycle with the timer update made after the instruction has executed
cycle_clock_last(self, key_pressed, now) ==
    IF ~pc_inbounds(self) THEN [st |-> self, ret |-> "Panic", raw_instruction |-> Panic]
    ELSE LET raw_instruction == get_instruction(self)
             advanced == [self EXCEPT !.pc = self.pc + 2]
             instruction == decode(raw_instruction)
         IN  IF instruction = None \/ instruction = Panicked
             THEN [st |-> clock(advanced, now), ret |-> "Panic",
                   raw_instruction |-> raw_instruction]
             ELSE LET r == execute(advanced, instruction, key_pressed)
                  IN  [st |-> clock(r.st, now), ret |-> r.ret,
                       raw_instruction |-> raw_instruction]

\* the result of cycle, with the word it fetched (Panic when it fetched none)
cycle(self, key_pressed, now) ==
    IF ~pc_inbounds(self) THEN [st |-> self, ret |-> "Panic", raw_instruction |-> Panic]
    ELSE LET clocked == clock(self, now)
             raw_instruction == get_instruction(clocked)
             advanced == [clocked EXCEPT !.pc = clocked.pc + 2]
             instruction == decode(raw_instruction)
         IN  IF instruction = None \/ instruction = Panicked
             THEN [st |-> advanced, ret |-> "Panic", raw_instruction |-> raw_instruction]
             ELSE LET r == execute(advanced, instruction, key_pressed)
                  IN  [st |-> r.st, ret |-> r.ret, raw_instruction |-> raw_instruction]

(***************************************************************************)
(* The machine as the variables hold it, and the calls made on it          *)
(***************************************************************************)
Self ==
    [registers |-> registers, memory |-> memory, pc |-> pc,
     index_register |-> index_register, delay_timer |-> delay_timer,
     sound_timer |-> sound_timer, display |-> display, stack |-> stack,
     last_clock |-> last_clock, rng |-> rng]

\* the variables hold `self`
Holds(self) ==
    /\ registers = self.registers
    /\ memory = self.memory
    /\ pc = self.pc
    /\ index_register = self.index_register
    /\ delay_timer = self.delay_timer
    /\ sound_timer = self.sound_timer
    /\ display = self.display
    /\ stack = self.stack
    /\ last_clock = self.last_clock
    /\ rng = self.rng

\* the variables hold `self` after the step
Install(self) ==
    /\ registers' = self.registers
    /\ memory' = self.memory
    /\ pc' = self.pc
    /\ index_register' = self.index_register
    /\ delay_timer' = self.delay_timer
    /\ sound_timer' = self.sound_timer
    /\ display' = self.display
    /\ stack' = self.stack
    /\ last_clock' = self.last_clock
    /\ rng' = self.rng

machine == <<registers, memory, pc, index_register, delay_timer, sound_timer,
             display, stack, last_clock, rng>>

NoCall == [fn |-> "none"]

\* decode(input), as decode.rs's tests call it
DecodeCall ==
    /\ call = NoCall
    /\ call' = [fn |-> "decode", instruction |-> input, ret |-> decode(input)]
    /\ UNCHANGED <<machine, halted, overflow_checks, time, ncycles, input>>

\* get_nibbles(input, index, num_nibbles), as bits.rs's tests call it
GetNibblesCall(index, num_nibbles) ==
    /\ call = NoCall
    /\ call' = [fn |-> "get_nibbles", instruction |-> input, index |-> index,
                num_nibbles |-> num_nibbles,
                ret |-> get_nibbles(input, index, num_nibbles)]
    /\ UNCHANGED <<machine, halted, overflow_checks, time, ncycles, input>>

\* chip8.execute(instruction, key_pressed), as chip8.rs's tests call it
ExecuteCall(instruction, key_pressed) ==
    /\ ~halted
    /\ LET r == execute(Self, instruction, key_pressed)
       IN  /\ Install(r.st)
           /\ halted' = (r.ret = "Panic")
           /\ call' = [fn |-> "execute", instruction |-> instruction,
                       key_pressed |-> key_pressed, ret |-> r.ret, pre |-> Self]
    /\ UNCHANGED <<overflow_checks, time, ncycles, input>>

\* main's event loop: chip8.cycle(key_pressed, time); time += clock_gap
CycleCall(key_pressed, clock_gap) ==
    /\ ~halted
    /\ LET r == cycle(Self, key_pressed, time)
       IN  /\ Install(r.st)
           /\ halted' = (r.ret = "Panic")
           /\ call' = [fn |-> "cycle", key_pressed |-> key_pressed, now |-> time,
                       raw_instruction |-> r.raw_instruction, ret |-> r.ret,
                       pre |-> Self]
    /\ time' = time + clock_gap
    /\ ncycles' = ncycles + 1
    /\ UNCHANGED <<overflow_checks, input>>

\* the number of calls made so far
CallNumber == IF call = NoCall THEN 0 ELSE IF "n" \in DOMAIN call THEN call.n ELSE 1

\* chip8.execute(instruction, key_pressed) in a sequence of calls, as chip8.rs's tests
\* make them: the call before it is remembered
ExecuteNext(instruction, key_pressed) ==
    /\ ~halted
    /\ LET r == execute(Self, instruction, key_pressed)
       IN  /\ Install(r.st)
           /\ halted' = (r.ret = "Panic")
           /\ call' = [fn |-> "execute", instruction |-> instruction,
                       key_pressed |-> key_pressed, ret |-> r.ret, pre |-> Self,
                       n |-> CallNumber + 1,
                       prev |-> IF call = NoCall THEN NoCall
                                ELSE [fn |-> "execute", instruction |-> call.instruction,
                                      ret |-> call.ret, pre |-> call.pre]]
    /\ UNCHANGED <<overflow_checks, time, ncycles, input>>

\* the timestamps of the cycles so far in which a timer went down without the fetched
\* instruction having set it
Decrements == IF call = NoCall THEN <<>> ELSE call.decrements

\* chip8.cycle(key_pressed, time) in main's loop, the cycles before it remembered
CycleNext(key_pressed, clock_gap) ==
    /\ ~halted
    /\ LET r == cycle(Self, key_pressed, time)
           op == IF r.raw_instruction = Panic THEN "Panic" ELSE decode(r.raw_instruction).op
           lowered == \/ r.st.sound_timer < sound_timer /\ op # "SetSoundTimer"
                      \/ r.st.delay_timer < delay_timer /\ op # "SetDelayTimer"
       IN  /\ Install(r.st)
           /\ halted' = (r.ret = "Panic")
           /\ call' = [fn |-> "cycle", key_pressed |-> key_pressed, now |-> time,
                       raw_instruction |-> r.raw_instruction, ret |-> r.ret, pre |-> Self,
                       n |-> CallNumber + 1,
                       decrements |-> IF lowered THEN Append(Decrements, time)
                                      ELSE Decrements]
    /\ time' = time + clock_gap
    /\ ncycles' = ncycles + 1
    /\ UNCHANGED <<overflow_checks, input>>

(***************************************************************************)
(* Specification of the pure functions: every 16-bit word is handed to     *)
(* decode and to get_nibbles                                               *)
(***************************************************************************)
InitDecode ==
    /\ Holds(new(0))
    /\ halted = FALSE
    /\ overflow_checks = TRUE
    /\ time = 0
    /\ ncycles = 0
    /\ input \in 0..(U16 - 1)
    /\ call = NoCall

NextDecode ==
    \/ DecodeCall
    \/ \E index \in 0..3, num_nibbles \in 1..4 : GetNibblesCall(index, num_nibbles)

SpecDecode == InitDecode /\ [][NextDecode]_vars

\* the instructions of the Instruction enum
InstructionOps ==
    {"ClearScreen", "Return", "Jump", "CallSubroutine", "SkipEQ", "SkipNEQ", "SkipEQR",
     "SkipNEQR", "SetRegister", "AddToRegister", "SetIndexRegister", "MovRegister",
     "BinaryOr", "BinaryAnd", "BinaryXor", "Add", "SubtractForward", "SubtractBackward",
     "ShiftRight", "ShiftLeft", "Random", "Draw", "SkipPressed", "SkipNotPressed",
     "GetDelayTimer", "GetKey", "FontChar", "SetDelayTimer", "SetSoundTimer",
     "AddToIndex", "RegToDecimal", "StoreMemory", "LoadMemory"}

\* the fields of a word, by arithmetic on the word
FieldTop(w) == w \div 4096
FieldX(w) == (w \div 256) % 16
FieldY(w) == (w \div 16) % 16
FieldN(w) == w % 16
FieldKK(w) == w % 256
FieldNNN(w) == w % 4096

\* C1: decode is total: for every 16-bit word it returns a recognized instruction or
\* None; no word fails an assertion of bits.rs or reaches "Impossible instruction".
C1_DecodeTotal ==
    call.fn = "decode" =>
        /\ call.ret # Panicked
        /\ call.ret = None \/ call.ret.op \in InstructionOps

\* C1's case: the largest word, which the property test's range leaves out, is decoded to None.
C1_Witness == call.fn = "decode" /\ call.instruction = 65535 /\ call.ret = None

\* C2: for every word and every index, width with index + width <= 4, get_nibbles
\* returns (w div 16^(4-index-width)) mod 16^width without failing; get_nibbles(w, 0, 4) = w.
C2_GetNibblesCorrect ==
    (call.fn = "get_nibbles" /\ call.index + call.num_nibbles <= 4) =>
        /\ call.ret # Panic
        /\ call.ret = (call.instruction \div Pow2(4 * (4 - call.index - call.num_nibbles)))
                        % Pow2(4 * call.num_nibbles)
        /\ (call.index = 0 /\ call.num_nibbles = 4) => call.ret = call.instruction

\* the instruction the opcode table gives a word of the 0x8 group
Group8Name(n) ==
    CASE n = 0 -> "MovRegister" [] n = 1 -> "BinaryOr" [] n = 2 -> "BinaryAnd"
      [] n = 3 -> "BinaryXor" [] n = 4 -> "Add" [] n = 5 -> "SubtractForward"
      [] n = 6 -> "ShiftRight" [] n = 7 -> "SubtractBackward" [] n = 14 -> "ShiftLeft"

\* C3: every word 0x8xyN with N in {0..7, E} decodes to the instruction of the opcode
\* table with operands (x, y), never to None.
C3_Group8Decoded ==
    (call.fn = "decode" /\ FieldTop(call.instruction) = 8
        /\ FieldN(call.instruction) \in (0..7) \cup {14}) =>
        call.ret = [op |-> Group8Name(FieldN(call.instruction)),
                    register1 |-> FieldX(call.instruction),
                    register2 |-> FieldY(call.instruction)]

\* the instruction the opcode table gives a word of the 0xF group
GroupFName(kk) ==
    CASE kk = 7 -> "GetDelayTimer" [] kk = 10 -> "GetKey" [] kk = 21 -> "SetDelayTimer"
      [] kk = 24 -> "SetSoundTimer" [] kk = 30 -> "AddToIndex" [] kk = 41 -> "FontChar"
      [] kk = 51 -> "RegToDecimal" [] kk = 85 -> "StoreMemory" [] kk = 101 -> "LoadMemory"

\* C4: every word 0xFxKK with KK in {07, 0A, 15, 18, 1E, 29, 33, 55, 65} decodes to the
\* instruction of the opcode table with operand x, never to None.
C4_GroupFDecoded ==
    (call.fn = "decode" /\ FieldTop(call.instruction) = 15
        /\ FieldKK(call.instruction) \in {7, 10, 21, 24, 30, 41, 51, 85, 101}) =>
        call.ret = [op |-> GroupFName(FieldKK(call.instruction)),
                    register |-> FieldX(call.instruction)]

\* the instruction the opcode table gives a word whose top nibble alone selects it
TopNibbleDecoded(w) ==
    CASE FieldTop(w) = 1 -> [op |-> "Jump", dest |-> FieldNNN(w)]
      [] FieldTop(w) = 2 -> [op |-> "CallSubroutine", dest |-> FieldNNN(w)]
      [] FieldTop(w) = 3 -> [op |-> "SkipEQ", register |-> FieldX(w), value |-> FieldKK(w)]
      [] FieldTop(w) = 4 -> [op |-> "SkipNEQ", register |-> FieldX(w), value |-> FieldKK(w)]
      [] FieldTop(w) = 6 -> [op |-> "SetRegister", register |-> FieldX(w), value |-> FieldKK(w)]
      [] FieldTop(w) = 7 -> [op |-> "AddToRegister", register |-> FieldX(w), value |-> FieldKK(w)]
      [] FieldTop(w) = 10 -> [op |-> "SetIndexRegister", value |-> FieldNNN(w)]
      [] FieldTop(w) = 12 -> [op |-> "Random", register |-> FieldX(w), value |-> FieldKK(w)]
      [] FieldTop(w) = 13 -> [op |-> "Draw", x_r |-> FieldX(w), y_r |-> FieldY(w),
                              height |-> FieldN(w)]

\* C5: for the opcodes the top nibble alone selects (1, 2, 3, 4, 6, 7, A, C, D), decode
\* extracts x, y, n, kk and nnn by nibble position, for every field value.
C5_TopNibbleFields ==
    (call.fn = "decode" /\ FieldTop(call.instruction) \in {1, 2, 3, 4, 6, 7, 10, 12, 13}) =>
        call.ret = TopNibbleDecoded(call.instruction)

\* C5's case: 0x7ABC is decoded to AddToRegister(0xA, 0xBC).
C5_Witness ==
    /\ call.fn = "decode"
    /\ call.instruction = 31420
    /\ call.ret = [op |-> "AddToRegister", register |-> 10, value |-> 188]

(***************************************************************************)
(* Specification of the register arithmetic: two operand registers hold    *)
(* any two bytes (SetRegister puts them there) and one instruction is      *)
(* executed on them                                                        *)
(***************************************************************************)
\* the registers the model uses as operands: 0..MaxReg and the flag register 0xF
MaxReg == 1
ModelRegs == (0..MaxReg) \cup {15}

ArithOps == {"Add", "SubtractForward", "SubtractBackward"}

InitArith ==
    /\ \E x \in ModelRegs, y \in ModelRegs, a \in 0..(U8 - 1), b \in 0..(U8 - 1) :
        /\ x = y => a = b
        /\ Holds([new(0) EXCEPT !.registers = [[i \in 0..15 |-> 0] EXCEPT ![x] = a, ![y] = b]])
        /\ input = [register1 |-> x, register2 |-> y]
    /\ halted = FALSE
    /\ overflow_checks = TRUE
    /\ time = 0
    /\ ncycles = 0
    /\ call = NoCall

ExecuteArith ==
    /\ call = NoCall
    /\ \E op \in ArithOps :
        ExecuteCall([op |-> op, register1 |-> input.register1,
                     register2 |-> input.register2], NoKey)

NextArith == ExecuteArith

SpecArith == InitArith /\ [][NextArith]_vars

\* the last call executed instruction `op`
Executed(op) == call.fn = "execute" /\ call.instruction.op = op

\* C6: SubtractForward x, y sets register 0xF to 0 when reg[x] < reg[y] before the
\* instruction and to 1 otherwise; for x # 0xF, reg[x] becomes (reg[x] - reg[y]) mod 256.
C6_SubForwardFlag ==
    Executed("SubtractForward") =>
        LET x == call.instruction.register1
            y == call.instruction.register2
            before == call.pre.registers
        IN  /\ registers[15] = IF before[x] < before[y] THEN 0 ELSE 1
            /\ x # 15 => registers[x] = (before[x] - before[y]) % U8

\* C7: SubtractBackward x, y sets register 0xF to 0 when reg[y] < reg[x] before the
\* instruction and to 1 otherwise; for x # 0xF, reg[x] becomes (reg[y] - reg[x]) mod 256.
C7_SubBackwardFlag ==
    Executed("SubtractBackward") =>
        LET x == call.instruction.register1
            y == call.instruction.register2
            before == call.pre.registers
        IN  /\ call.ret = "Complete"
            /\ registers[15] = IF before[y] < before[x] THEN 0 ELSE 1
            /\ x # 15 => registers[x] = (before[y] - before[x]) % U8

\* C7's case: a SubtractBackward that borrowed (3 - 5) left 254 in reg[x] and 0 in the flag.
C7_Witness ==
    /\ Executed("SubtractBackward")
    /\ call.instruction.register1 = 0
    /\ call.instruction.register2 = 1
    /\ call.pre.registers[0] = 5
    /\ call.pre.registers[1] = 3
    /\ registers[0] = 254
    /\ registers[15] = 0

\* C8: Add x, y sets register 0xF to 1 exactly when reg[x] + reg[y] > 255 before the
\* instruction, for every register pair (x = y, x or y = 0xF included); for x # 0xF,
\* reg[x] becomes (reg[x] + reg[y]) mod 256, which is 2 * reg[y] mod 256 when
\* reg[x] = reg[y] as after a Move.
C8_AddFlag ==
    Executed("Add") =>
        LET x == call.instruction.register1
            y == call.instruction.register2
            before == call.pre.registers
        IN  /\ call.ret = "Complete"
            /\ registers[15] = IF before[x] + before[y] > 255 THEN 1 ELSE 0
            /\ x # 15 => registers[x] = (before[x] + before[y]) % U8
            /\ (x # 15 /\ before[x] = before[y]) => registers[x] = (2 * before[y]) % U8

\* C8's case: Add x, x on 200 overflowed: reg[x] = 144 and the flag is 1.
C8_Witness ==
    /\ Executed("Add")
    /\ call.instruction.register1 = 1
    /\ call.instruction.register2 = 1
    /\ call.pre.registers[1] = 200
    /\ registers[1] = 144
    /\ registers[15] = 1

(***************************************************************************)
(* Specification of AddToIndex: the index register holds a value at either *)
(* end of its range (SetIndexRegister and earlier AddToIndex put it        *)
(* there), one register holds any byte, and AddToIndex is executed         *)
(***************************************************************************)
\* the index values below the top 256 that the model starts from: 0..IndexLow
IndexLow == 2
IndexValues == (0..IndexLow) \cup {736, 4095} \cup ((U16 - U8)..(U16 - 1))

InitIndex ==
    /\ \E x \in ModelRegs, a \in 0..(U8 - 1), i \in IndexValues :
        /\ Holds([new(0) EXCEPT !.registers[x] = a, !.index_register = i])
        /\ input = [register |-> x]
    /\ halted = FALSE
    /\ overflow_checks = TRUE
    /\ time = 0
    /\ ncycles = 0
    /\ call = NoCall

ExecuteAddToIndex ==
    /\ call = NoCall
    /\ ExecuteCall([op |-> "AddToIndex", register |-> input.register], NoKey)

NextIndex == ExecuteAddToIndex

SpecIndex == InitIndex /\ [][NextIndex]_vars

\* C9: AddToIndex x sets the index register to (index + reg[x]) mod 65536 and register
\* 0xF to 1 exactly when index + reg[x] > 0xFFFF, else to 0, for every index value
\* (0xFFFF included) and every register x.
C9_AddToIndexFlag ==
    Executed("AddToIndex") =>
        LET x == call.instruction.register
            before == call.pre
        IN  /\ call.ret = "Complete"
            /\ index_register = (before.index_register + before.registers[x]) % U16
            /\ registers[15] =
                IF before.index_register + before.registers[x] > 65535 THEN 1 ELSE 0

\* C9's case: AddToIndex from index 0xFFFF with reg[x] = 1 wrapped to 0 and set the flag.
C9_Witness ==
    /\ Executed("AddToIndex")
    /\ call.instruction.register = 0
    /\ call.pre.index_register = 65535
    /\ call.pre.registers[0] = 1
    /\ index_register = 0
    /\ registers[15] = 1

(***************************************************************************)
(* Specification of the running machine: main loads a program and its      *)
(* event loop runs cycles, each with the key held down and the host's time *)
(***************************************************************************)
\* the programs the model loads, as 16-bit words from address 0x200
Programs == <<
    \* V1 = 7; wait for a key in V0; V0 += 1; jump back to the wait
    <<24839, 61450, 28673, 4610>>,
    \* V0 = 1; V0 += 0xFF; skip if V0 = 0; jump 0x202; I = 0x2E0; I += V0; jump 0x200
    <<24577, 28927, 12288, 4610, 41696, 61470, 4608>>,
    \* clear; call 0x206; jump 0x200; I = 0 (glyph 0); draw V1, V2, 5 rows; return
    <<224, 8710, 4608, 40960, 53541, 238>>,
    \* V0 = 1; delay = V0; V1 = delay; skip if key V0; skip unless key V0; jump 0x204;
    \* V1 = random & 0x0F; jump 0x200
    <<24577, 61461, 61703, 57502, 57505, 4612, 49423, 4608>>,
    \* call 0x204; jump 0x202; 0x204: call 0x208; 0x206: return; 0x208: return
    <<8708, 4610, 8712, 238, 238>>,
    \* return
    <<238>>,
    \* jump 0x100
    <<4352>>,
    \* jump 0xFFF
    <<8191>>,
    \* jump 0xFFE
    <<8190>>,
    \* V0 = random; skip unless key V1; V1 = random & 0x0F; delay = V0; V2 = delay;
    \* jump 0x200
    <<49407, 57761, 49423, 61461, 61959, 4608>>
>>

\* the keys the host reports: none, or one of 0..MaxKey
MaxKey == 1
Keys == {NoKey} \cup (0..MaxKey)

\* main's clock_gap (1 s / clock_speed), in nanoseconds, and a host clocked at 60 Hz
CLOCK_GAP == 1000
ClockGaps == {CLOCK_GAP, TIME_60HZ}

\* the number of cycles the model runs
MaxCycles == 6

Init ==
    /\ \E p \in 1..Len(Programs) :
        /\ Holds(read_program(new(0), Programs[p]))
        /\ input = p
    /\ halted = FALSE
    /\ overflow_checks \in BOOLEAN
    /\ time = 0
    /\ ncycles = 0
    /\ call = NoCall

RunCycle ==
    /\ ncycles < MaxCycles
    /\ \E key_pressed \in Keys, clock_gap \in ClockGaps : CycleCall(key_pressed, clock_gap)

Next == RunCycle

Spec == Init /\ [][Next]_vars

\* the last call was a cycle that fetched a word 0xFx0A
FetchedWaitKey ==
    /\ call.fn = "cycle"
    /\ call.raw_instruction # Panic
    /\ FieldTop(call.raw_instruction) = 15
    /\ FieldKK(call.raw_instruction) = 10

\* C10: a cycle that fetches 0xFx0A with no key pressed completes without halting and
\* leaves the program counter where it was before the cycle and the registers unchanged;
\* a cycle that fetches it with a key k pressed sets reg[x] to k and advances the
\* program counter by 2.
C10_WaitKeySpin ==
    FetchedWaitKey =>
        IF call.key_pressed = NoKey
        THEN /\ call.ret = "Complete"
             /\ ~halted
             /\ pc = call.pre.pc
             /\ registers = call.pre.registers
        ELSE /\ call.ret = "Complete"
             /\ ~halted
             /\ registers[FieldX(call.raw_instruction)] = call.key_pressed
             /\ pc = call.pre.pc + 2

(***************************************************************************)
(* Specification of Draw: a program image holding sprite rows is loaded,   *)
(* two registers hold coordinates, the index register points at a font     *)
(* glyph, at the sprite rows or near the end of memory, and Draw           *)
(* instructions are executed one after another                             *)
(***************************************************************************)
\* the image loaded at 0x200: sprite rows FF 81 3C 5A 01 80 AA 55 F0 0F 0F F0 C3 E7 18 18
SpriteRom == <<65409, 15450, 384, 43605, 61455, 4080, 50151, 6168>>

DrawXValues == {0, 58, 63, 201}
DrawYValues == {0, 29, 31, 100}
DrawIndexValues == {0, 512, 4090}
DrawHeights == {0, 5, 15}
DrawRegs == {<<0, 1>>, <<1, 1>>}

\* the number of Draw instructions the model executes in a row
MaxDraws == 3

InitDraw ==
    /\ \E vx \in DrawXValues, vy \in DrawYValues, i \in DrawIndexValues :
        Holds([read_program(new(0), SpriteRom) EXCEPT
                !.registers[0] = vx, !.registers[1] = vy, !.index_register = i])
    /\ input = 0
    /\ halted = FALSE
    /\ overflow_checks = TRUE
    /\ time = 0
    /\ ncycles = 0
    /\ call = NoCall

ExecuteDraw ==
    /\ CallNumber < MaxDraws
    /\ \E r \in DrawRegs, height \in DrawHeights :
        ExecuteNext([op |-> "Draw", x_r |-> r[1], y_r |-> r[2], height |-> height], NoKey)

NextDraw == ExecuteDraw

SpecDraw == InitDraw /\ [][NextDraw]_vars

\* the last two calls executed the same Draw instruction and both returned
DrewTwice ==
    /\ Executed("Draw")
    /\ call.n >= 2
    /\ call.prev.instruction = call.instruction
    /\ call.prev.ret = "RedrawRequested"
    /\ call.ret = "RedrawRequested"

\* C11: executing the same Draw instruction twice in a row, with every sprite row inside
\* memory, leaves every display cell as it was before the first of the two.
C11_DrawSelfInverse == DrewTwice => display = call.prev.pre.display

\* C11's case: on a display that was not blank, a Draw that changed cells was undone by
\* the same Draw.
C11_Witness ==
    /\ DrewTwice
    /\ call.n = 3
    /\ call.prev.pre.display # {}
    /\ call.pre.display # call.prev.pre.display
    /\ display = call.prev.pre.display

\* the cells Draw(x, y, n) is to toggle in machine state `before`: bit c, counted from
\* the most significant, of memory[index + r], at (X + c, Y + r), when on the screen
DrawnCells(before, x_r, y_r, n) ==
    LET X == before.registers[x_r] % 64
        Y == before.registers[y_r] % 32
    IN  {<<Y + r, X + c>> :
            <<r, c>> \in {rc \in (0..(n - 1)) \X (0..7) :
                /\ (MemRead(before.memory, before.index_register + rc[1])
                        \div Pow2(7 - rc[2])) % 2 = 1
                /\ X + rc[2] < 64
                /\ Y + rc[1] < 32}}

\* C12: a Draw whose sprite rows lie inside memory toggles exactly the cells
\* (X + c, Y + r) for which bit c (0 = leftmost) of memory[index + r], r < n, is set and
\* X + c < 64 and Y + r < 32, with X = reg[x] mod 64 and Y = reg[y] mod 32: pixels past
\* the right or bottom edge are dropped, not wrapped, and no other cell changes.
C12_DrawToggles ==
    (Executed("Draw") /\ call.ret = "RedrawRequested") =>
        LET cells == DrawnCells(call.pre, call.instruction.x_r, call.instruction.y_r,
                                call.instruction.height)
        IN  /\ \A cell \in cells : (cell \in display) # (cell \in call.pre.display)
            /\ \A cell \in (display \cup call.pre.display) \ cells :
                    (cell \in display) = (cell \in call.pre.display)
            /\ \A cell \in display : cell[1] \in 0..31 /\ cell[2] \in 0..63

\* C12's case: the row FF drawn at X = 58 lit columns 58..63 and nothing in column 0.
C12_Witness ==
    /\ Executed("Draw")
    /\ call.ret = "RedrawRequested"
    /\ call.instruction.height = 5
    /\ call.pre.registers[call.instruction.x_r] = 58
    /\ call.pre.index_register = 512
    /\ call.pre.display = {}
    /\ {c \in 0..63 : <<call.pre.registers[call.instruction.y_r] % 32, c>> \in display}
            = 58..63

(***************************************************************************)
(* Specification of StoreMemory and LoadMemory, after                      *)
(* tests::memory_bothways: registers 0..=register hold values, the index   *)
(* register is set, then StoreMemory, SetRegister(i, 0) for every i in     *)
(* 0..=register, and LoadMemory are executed                               *)
(***************************************************************************)
MemSeeds == {1, 100, 255}
MemIndexValues == {0, 78, 512, 2047, 4080, 4090, 4095}

\* the values the test's generator hands out, one per register
RegisterFill(seed) == [i \in 0..15 |-> IF i = 0 THEN seed ELSE StdRngGen(seed + i)]

InitMemory ==
    /\ \E register \in 0..15, seed \in MemSeeds, mem \in MemIndexValues :
        LET vals == RegisterFill(seed)
        IN  /\ Holds([new(0) EXCEPT
                        !.registers = [i \in 0..15 |-> IF i <= register THEN vals[i] ELSE 0],
                        !.index_register = mem])
            /\ input = [register |-> register, vals |-> vals, mem |-> mem]
    /\ halted = FALSE
    /\ overflow_checks = TRUE
    /\ time = 0
    /\ ncycles = 0
    /\ call = NoCall

ExecuteStore ==
    /\ CallNumber = 0
    /\ ExecuteNext([op |-> "StoreMemory", register |-> input.register], NoKey)

ExecuteClear ==
    /\ CallNumber \in 1..(input.register + 1)
    /\ ExecuteNext([op |-> "SetRegister", register |-> CallNumber - 1, value |-> 0], NoKey)

ExecuteLoad ==
    /\ CallNumber = input.register + 2
    /\ ExecuteNext([op |-> "LoadMemory", register |-> input.register], NoKey)

NextMemory == ExecuteStore \/ ExecuteClear \/ ExecuteLoad

SpecMemory == InitMemory /\ [][NextMemory]_vars

\* the index register and the register count leave every byte inside memory
RangeInside == input.mem + input.register < MEMORY_SIZE

\* C13: for every register count x in 0..=15 and index I with I + x inside memory,
\* StoreMemory(x) writes reg[i] to memory[I + i] for i in 0..=x; after registers 0..=x
\* are set to 0, LoadMemory(x) restores them to their original values; both
\* instructions return normally and leave the index register unchanged.
C13_StoreLoadRoundTrip ==
    /\ (Executed("StoreMemory") /\ RangeInside) =>
        /\ call.ret = "Complete"
        /\ \A i \in 0..input.register :
                MemRead(memory, input.mem + i) = input.vals[i]
        /\ index_register = input.mem
        /\ registers = call.pre.registers
    /\ (Executed("LoadMemory") /\ RangeInside) =>
        /\ call.ret = "Complete"
        /\ \A i \in 0..input.register :
                call.pre.registers[i] = 0 /\ registers[i] = input.vals[i]
        /\ index_register = input.mem
        /\ memory = call.pre.memory

\* C13's case: all sixteen registers stored at 4080..4095, cleared and loaded back.
C13_Witness ==
    /\ Executed("LoadMemory")
    /\ input.register = 15
    /\ input.mem = 4080
    /\ call.n = 18
    /\ \A i \in 0..15 : call.pre.registers[i] = 0 /\ registers[i] = input.vals[i]
    /\ \E i \in 0..15 : registers[i] # 0

(***************************************************************************)
(* Specification of RegToDecimal, after tests::num_tests: a register holds *)
(* a value, the index register an address, and RegToDecimal is executed    *)
(***************************************************************************)
BcdIndexValues == {0, 512, 4093, 4094, 4095}

InitBCD ==
    /\ \E register \in ModelRegs, value \in 0..(U8 - 1), mem \in BcdIndexValues :
        /\ Holds([new(0) EXCEPT !.registers[register] = value, !.index_register = mem])
        /\ input = [register |-> register, value |-> value, mem |-> mem]
    /\ halted = FALSE
    /\ overflow_checks = TRUE
    /\ time = 0
    /\ ncycles = 0
    /\ call = NoCall

ExecuteRegToDecimal ==
    /\ call = NoCall
    /\ ExecuteCall([op |-> "RegToDecimal", register |-> input.register], NoKey)

NextBCD == ExecuteRegToDecimal

SpecBCD == InitBCD /\ [][NextBCD]_vars

\* C14: RegToDecimal on register x with the index register at I, the bytes I..I+2
\* inside memory, writes for every v = reg[x] in 0..255 memory[I] = v div 100,
\* memory[I+1] = (v div 10) mod 10, memory[I+2] = v mod 10, and changes no other memory
\* byte, no register and not the index register.
C14_StoreBCD ==
    (Executed("RegToDecimal") /\ input.mem + 2 < MEMORY_SIZE) =>
        LET v == input.value
            I == input.mem
        IN  /\ call.ret = "Complete"
            /\ MemRead(memory, I) = v \div 100
            /\ MemRead(memory, I + 1) = (v \div 10) % 10
            /\ MemRead(memory, I + 2) = v % 10
            /\ \A a \in (DOMAIN memory \cup DOMAIN call.pre.memory) \ {I, I + 1, I + 2} :
                    MemRead(memory, a) = MemRead(call.pre.memory, a)
            /\ registers = call.pre.registers
            /\ index_register = I
            /\ [Self EXCEPT !.memory = call.pre.memory] = call.pre

\* C14's case: 123 was written as 1, 2, 3 over the last three bytes of memory.
C14_Witness ==
    /\ Executed("RegToDecimal")
    /\ input.value = 123
    /\ input.mem = 4093
    /\ MemRead(memory, 4093) = 1
    /\ MemRead(memory, 4094) = 2
    /\ MemRead(memory, 4095) = 3

(***************************************************************************)
(* Specification of the timers: a program sets the delay timer and loops   *)
(* reading it, the sound timer holds a value, and cycles are run at        *)
(* timestamps that never decrease                                          *)
(***************************************************************************)
\* V0 = 5; delay = V0; 0x204: V1 = delay; jump 0x204
ClockProgram == <<24581, 61461, 61703, 4612>>

SoundValues == {0, 3}

\* the time between two cycles: main's clock gap, half a timer period, one, two
TimerGaps == {CLOCK_GAP, 8333333, TIME_60HZ, 2 * TIME_60HZ}

\* the number of cycles run
MaxTicks == 7

InitClock ==
    /\ \E sound \in SoundValues :
        /\ Holds([read_program(new(0), ClockProgram) EXCEPT !.sound_timer = sound])
        /\ input = sound
    /\ halted = FALSE
    /\ overflow_checks = TRUE
    /\ time = 0
    /\ ncycles = 0
    /\ call = NoCall

Tick ==
    /\ ncycles < MaxTicks
    /\ \E clock_gap \in TimerGaps : CycleNext(NoKey, clock_gap)

NextClock == Tick

SpecClock == InitClock /\ [][NextClock]_vars

\* the instruction the last cycle fetched
FetchedOp == decode(call.raw_instruction).op

\* C15: over cycles with non-decreasing timestamps, the cycles in which the clock lowers
\* a timer are at least one timer period (Duration::from_secs_f32(1.0) / 60) apart, the
\* k-th of them no earlier than k periods after the start; a cycle run less than a
\* period after the last timer update changes neither timer through the clock, and no
\* cycle lowers a timer by more than one.
C15_TimerRate ==
    call.fn = "cycle" =>
        /\ \A k \in 1..Len(call.decrements) :
            /\ call.decrements[k] >= k * TIME_60HZ
            /\ k > 1 => call.decrements[k] - call.decrements[k - 1] >= TIME_60HZ
        /\ (call.now - call.pre.last_clock < TIME_60HZ) =>
            /\ sound_timer = call.pre.sound_timer
            /\ FetchedOp # "SetDelayTimer" => delay_timer = call.pre.delay_timer
            /\ last_clock = call.pre.last_clock
        /\ sound_timer >= call.pre.sound_timer - 1
        /\ FetchedOp # "SetDelayTimer" => delay_timer >= call.pre.delay_timer - 1

\* C15's case: two decrements exactly one period apart, cycles in between and after
\* them that left the timers alone.
C15_Witness ==
    /\ call.fn = "cycle"
    /\ Len(call.decrements) = 2
    /\ call.decrements[2] - call.decrements[1] = TIME_60HZ
    /\ call.n = 7
    /\ call.now - call.pre.last_clock = CLOCK_GAP
    /\ sound_timer = 1
    /\ delay_timer = 3

\* the word held at `address` and the address after it
WordAt(address) == get_instruction([Self EXCEPT !.pc = address])

\* the last call was a cycle that fetched a word decoding to `op`
Fetched(op) ==
    /\ call.fn = "cycle"
    /\ call.raw_instruction # Panic
    /\ FetchedOp = op

\* C16: a cycle that fetches Call nnn at address A pushes A + 2 on the call stack and
\* sets the program counter to nnn; a Return sets the program counter to the most
\* recently pushed address not yet popped and removes it; every address on the stack is
\* that of the word after a Call, so nested calls return in reverse order, each to the
\* word after its Call.
C16_CallReturnLIFO ==
    /\ Fetched("CallSubroutine") =>
        /\ stack = Append(call.pre.stack, call.pre.pc + 2)
        /\ pc = FieldNNN(call.raw_instruction)
        /\ call.ret = "Complete"
    /\ (Fetched("Return") /\ call.pre.stack # <<>>) =>
        /\ pc = call.pre.stack[Len(call.pre.stack)]
        /\ Append(stack, pc) = call.pre.stack
        /\ call.ret = "Complete"
    /\ \A k \in 1..Len(stack) : decode(WordAt(stack[k] - 2)).op = "CallSubroutine"

\* C16's case: the inner of two nested calls returned to the word after its Call, the
\* outer return address still on the stack.
C16_Witness ==
    /\ Fetched("Return")
    /\ call.pre.stack = <<514, 518>>
    /\ pc = 518
    /\ stack = <<514>>

\* C17: a cycle whose fetched word decodes to the unrecognized marker, and a Return
\* fetched with an empty call stack, both panic and leave the machine halted, the stack
\* still empty in the second case; a halted machine runs no later cycle: the last call
\* made is the one that panicked.
C17_FatalHalt ==
    call.fn = "cycle" =>
        /\ (call.raw_instruction # Panic /\ decode(call.raw_instruction) = None) =>
                call.ret = "Panic" /\ halted
        /\ (Fetched("Return") /\ call.pre.stack = <<>>) =>
                call.ret = "Panic" /\ halted /\ stack = <<>>
        /\ halted <=> call.ret = "Panic"

\* C17's case: a Return fetched with nothing on the stack halted the machine.
C17_Witness ==
    /\ Fetched("Return")
    /\ call.pre.stack = <<>>
    /\ halted
    /\ stack = <<>>

\* C18: a cycle invoked with the program counter below 0x200 or above 4094 panics
\* before fetching and before changing any machine state; whenever a word is fetched,
\* both its bytes lie at addresses in 0x200..4095.
C18_PcOutOfRegion ==
    call.fn = "cycle" =>
        /\ (call.pre.pc < 512 \/ call.pre.pc > 4094) =>
            /\ call.ret = "Panic"
            /\ halted
            /\ call.raw_instruction = Panic
            /\ Self = call.pre
        /\ call.raw_instruction # Panic =>
            /\ call.pre.pc >= 512
            /\ call.pre.pc + 1 <= 4095

\* C18's case: a cycle entered with the program counter at 4095 halted without a fetch.
C18_Witness ==
    /\ call.fn = "cycle"
    /\ call.pre.pc = 4095
    /\ call.raw_instruction = Panic
    /\ halted
    /\ Self = call.pre

\* C20: a cycle that fetches SkipPressed(x) ends 4 past the fetch address exactly when
\* a key is pressed and equals reg[x], and 2 past it otherwise; one that fetches
\* SkipNotPressed(x) ends 4 past it exactly when no key is pressed or the key differs
\* from reg[x]; neither changes a register.
C20_KeySkips ==
    /\ Fetched("SkipPressed") =>
        LET held == call.key_pressed # NoKey /\
                    call.key_pressed = call.pre.registers[FieldX(call.raw_instruction)]
        IN  /\ pc = call.pre.pc + (IF held THEN 4 ELSE 2)
            /\ registers = call.pre.registers
            /\ call.ret = "Complete"
    /\ Fetched("SkipNotPressed") =>
        LET held == call.key_pressed # NoKey /\
                    call.key_pressed = call.pre.registers[FieldX(call.raw_instruction)]
        IN  /\ pc = call.pre.pc + (IF held THEN 2 ELSE 4)
            /\ registers = call.pre.registers
            /\ call.ret = "Complete"

\* C20's case: SkipNotPressed skipped with no key pressed.
C20_Witness ==
    /\ Fetched("SkipNotPressed")
    /\ call.key_pressed = NoKey
    /\ pc = call.pre.pc + 4

(***************************************************************************)
(* Specification of the shifts, after tests::instruction_tests: two        *)
(* registers are set and ShiftRight or ShiftLeft is executed on them       *)
(***************************************************************************)
ShiftOps == {"ShiftRight", "ShiftLeft"}
SecondOperands == {0, 1, 255}

InitShift ==
    /\ \E r1 \in ModelRegs, r2 \in ModelRegs, a \in 0..(U8 - 1), b \in SecondOperands :
        /\ r1 = r2 => a = b
        /\ Holds([new(0) EXCEPT !.registers[r1] = a, !.registers[r2] = b])
        /\ input = [register1 |-> r1, register2 |-> r2]
    /\ halted = FALSE
    /\ overflow_checks = TRUE
    /\ time = 0
    /\ ncycles = 0
    /\ call = NoCall

ExecuteShift ==
    /\ call = NoCall
    /\ \E op \in ShiftOps :
        ExecuteCall([op |-> op, register1 |-> input.register1,
                     register2 |-> input.register2], NoKey)

NextShift == ExecuteShift

SpecShift == InitShift /\ [][NextShift]_vars

\* C19: ShiftRight(x, y) sets reg[x] to reg[x] div 2 and ShiftLeft(x, y) sets reg[x] to
\* (2 * reg[x]) mod 256, whatever y and reg[y] are; every other register, the flag
\* register 0xF included when x is not 0xF, and the rest of the machine are unchanged.
C19_Shifts ==
    LET x == input.register1
        before == call.pre
    IN  /\ Executed("ShiftRight") =>
            /\ registers = [before.registers EXCEPT ![x] = before.registers[x] \div 2]
            /\ [Self EXCEPT !.registers = before.registers] = before
            /\ call.ret = "Complete"
        /\ Executed("ShiftLeft") =>
            /\ registers = [before.registers EXCEPT ![x] = (2 * before.registers[x]) % 256]
            /\ [Self EXCEPT !.registers = before.registers] = before
            /\ call.ret = "Complete"

\* C19's case: 0xFF shifted right in register 0 with the flag register, the second
\* operand, holding 1: both bits shifted out are lost and the flag stays.
C19_Witness ==
    /\ Executed("ShiftRight")
    /\ input = [register1 |-> 0, register2 |-> 15]
    /\ call.pre.registers[0] = 255
    /\ call.pre.registers[15] = 1
    /\ registers[0] = 127
    /\ registers[15] = 1

(***************************************************************************)
(* Specification of two machines: a second machine is constructed with the *)
(* same start instant, reads the same program, and is given every cycle    *)
(* the first machine is given                                              *)
(***************************************************************************)
\* the second machine before the next cycle
Other == IF call = NoCall THEN read_program(new(0), Programs[input]) ELSE call.other

\* the number of cycles so far that fetched a Random
Randoms == IF call = NoCall THEN 0 ELSE call.randoms

\* chip8.cycle(key_pressed, time) on both machines
CyclePair(key_pressed, clock_gap) ==
    /\ ~halted
    /\ LET r == cycle(Self, key_pressed, time)
           o == cycle(Other, key_pressed, time)
           random == r.raw_instruction # Panic /\ decode(r.raw_instruction).op = "Random"
       IN  /\ Install(r.st)
           /\ halted' = (r.ret = "Panic")
           /\ call' = [fn |-> "cycle", key_pressed |-> key_pressed, now |-> time,
                       raw_instruction |-> r.raw_instruction, ret |-> r.ret, pre |-> Self,
                       n |-> CallNumber + 1,
                       other |-> o.st, other_ret |-> o.ret,
                       randoms |-> IF random THEN Randoms + 1 ELSE Randoms]
    /\ time' = time + clock_gap
    /\ ncycles' = ncycles + 1
    /\ UNCHANGED <<overflow_checks, input>>

RunPair ==
    /\ ncycles < MaxCycles
    /\ \E key_pressed \in Keys, clock_gap \in ClockGaps : CyclePair(key_pressed, clock_gap)

NextPair == RunPair

SpecPair == Init /\ [][NextPair]_vars

C22_DrawNeverFails == Executed("Draw") => call.ret = "RedrawRequested"

(***************************************************************************)
(* Specification of the display: a program that clears, calls and draws is *)
(* run for some cycles, then any one instruction is executed               *)
(***************************************************************************)
\* the variant `op` of Instruction with operands taken from x, y and v
Instruction(op, x, y, v) ==
    CASE op \in {"ClearScreen", "Return"} -> [op |-> op]
      [] op \in {"Jump", "CallSubroutine"} -> [op |-> op, dest |-> INIT_INDEX + v]
      [] op \in {"SkipEQ", "SkipNEQ", "SetRegister", "AddToRegister", "Random"} ->
            [op |-> op, register |-> x, value |-> v]
      [] op \in {"SkipEQR", "SkipNEQR", "MovRegister", "BinaryOr", "BinaryAnd",
                 "BinaryXor", "Add", "SubtractForward", "SubtractBackward",
                 "ShiftRight", "ShiftLeft"} ->
            [op |-> op, register1 |-> x, register2 |-> y]
      [] op = "SetIndexRegister" -> [op |-> op, value |-> v]
      [] op = "Draw" -> [op |-> op, x_r |-> x, y_r |-> y, height |-> v]
      [] op \in {"SkipPressed", "SkipNotPressed"} -> [op |-> op, key |-> x]
      [] OTHER -> [op |-> op, register |-> x]

FrameRegs == {1, 2}
FrameValues == {0, 5}
FrameKeys == {NoKey, 0}
FrameXValues == {0, 60}
FrameYValues == {0, 30}

\* the number of cycles of the program run before the instruction
MaxFrameCycles == 5

InitFrame ==
    /\ \E vx \in FrameXValues, vy \in FrameYValues :
        Holds([read_program(new(0), Programs[3]) EXCEPT
                !.registers[1] = vx, !.registers[2] = vy])
    /\ input = 3
    /\ halted = FALSE
    /\ overflow_checks = TRUE
    /\ time = 0
    /\ ncycles = 0
    /\ call = NoCall

CycleFrame ==
    /\ call.fn # "execute"
    /\ ncycles < MaxFrameCycles
    /\ CycleNext(NoKey, CLOCK_GAP)

ExecuteFrame ==
    /\ call.fn # "execute"
    /\ \E op \in InstructionOps, x \in FrameRegs, v \in FrameValues, key \in FrameKeys :
        ExecuteCall(Instruction(op, x, 2, v), key)

NextFrame == CycleFrame \/ ExecuteFrame

SpecFrame == InitFrame /\ [][NextFrame]_vars

\* the instruction the last call executed
LastOp ==
    IF call.fn = "execute" THEN call.instruction.op
    ELSE IF call.raw_instruction = Panic THEN "Panic" ELSE FetchedOp

\* C23: the display is modified only by ClearScreen (all cells off) and Draw, and a
\* call that returns, returns the redraw signal exactly for those two instructions (Draw
\* even when height is 0 or no cell changes); every other instruction returns Complete
\* unless it panics and leaves all cells unchanged, in execute and across cycles.
C23_DisplayFrame ==
    call # NoCall =>
        /\ LastOp = "ClearScreen" => display = {} /\ call.ret = "RedrawRequested"
        /\ LastOp = "Draw" => call.ret = "RedrawRequested"
        /\ LastOp \notin {"ClearScreen", "Draw"} =>
            /\ display = call.pre.display
            /\ call.ret \in {"Complete", "Panic"}
            /\ call.ret = "Panic" => LastOp = "Return" /\ call.pre.stack = <<>>

\* C23's case: a Draw of height 0 on a lit display returned the redraw signal and
\* changed no cell.
C23_Witness ==
    /\ Executed("Draw")
    /\ call.instruction.height = 0
    /\ call.ret = "RedrawRequested"
    /\ display = call.pre.display
    /\ display # {}

(***************************************************************************)
(* Specification of the timers under instructions: a program sets the      *)
(* delay timer to 5, then to 1, and loops reading it; the sound timer is   *)
(* set by execute(SetSoundTimer) between cycles                            *)
(***************************************************************************)
\* V0 = 5; delay = V0; V0 = 1; delay = V0; 0x208: V1 = delay; jump 0x208
TimerProgram == <<24581, 61461, 24577, 61461, 61703, 4616>>

\* the time between two cycles: main's clock gap, one timer period, three
LongGaps == {CLOCK_GAP, TIME_60HZ, 3 * TIME_60HZ}

\* the number of cycles run
MaxTimerCycles == 7

InitTimers ==
    /\ Holds(read_program(new(0), TimerProgram))
    /\ input = 0
    /\ halted = FALSE
    /\ overflow_checks = TRUE
    /\ time = 0
    /\ ncycles = 0
    /\ call = NoCall

TimerCycle ==
    /\ ncycles < MaxTimerCycles
    /\ \E clock_gap \in LongGaps : CycleCall(NoKey, clock_gap)

\* execute(SetSoundTimer) from the host, as the tests call execute
TimerSetSound ==
    /\ ncycles < MaxTimerCycles
    /\ call.fn # "execute"
    /\ ExecuteCall([op |-> "SetSoundTimer", register |-> 0], NoKey)

NextTimers == TimerCycle \/ TimerSetSound

SpecTimers == InitTimers /\ [][NextTimers]_vars

\* C24 as stated: each timer stays in 0..255, a timer at 0 stays 0 under the clock, a
\* single cycle lowers each timer by at most 1 however much time has elapsed, and a
\* timer increases only in a step that executes SetDelayTimer (delay timer) or
\* SetSoundTimer (sound timer).
C24_TimerInvariantAsStated ==
    /\ delay_timer \in 0..255
    /\ sound_timer \in 0..255
    /\ call.fn = "cycle" =>
        /\ delay_timer >= call.pre.delay_timer - 1
        /\ sound_timer >= call.pre.sound_timer - 1
    /\ call # NoCall =>
        /\ delay_timer > call.pre.delay_timer => LastOp = "SetDelayTimer"
        /\ sound_timer > call.pre.sound_timer => LastOp = "SetSoundTimer"
        /\ (call.pre.delay_timer = 0 /\ LastOp # "SetDelayTimer") => delay_timer = 0
        /\ (call.pre.sound_timer = 0 /\ LastOp # "SetSoundTimer") => sound_timer = 0

\* C24: each timer stays in 0..255; in a step that does not execute SetDelayTimer the
\* delay timer, and in a step that does not execute SetSoundTimer the sound timer, does
\* not increase, goes down by at most 1 however much time has elapsed, and stays 0 when
\* it was 0.
C24_TimerInvariant ==
    /\ delay_timer \in 0..255
    /\ sound_timer \in 0..255
    /\ (call # NoCall /\ LastOp # "SetDelayTimer") =>
        /\ delay_timer <= call.pre.delay_timer
        /\ delay_timer >= call.pre.delay_timer - 1
        /\ call.pre.delay_timer = 0 => delay_timer = 0
    /\ (call # NoCall /\ LastOp # "SetSoundTimer") =>
        /\ sound_timer <= call.pre.sound_timer
        /\ sound_timer >= call.pre.sound_timer - 1
        /\ call.pre.sound_timer = 0 => sound_timer = 0

\* C24's case: a cycle run three periods after the last update found the delay timer
\* at 0 and left it there, and lowered the sound timer by one.
C24_Witness ==
    /\ call.fn = "cycle"
    /\ call.now - call.pre.last_clock >= 3 * TIME_60HZ
    /\ last_clock = call.now
    /\ call.pre.delay_timer = 0
    /\ delay_timer = 0
    /\ call.pre.sound_timer = 4
    /\ sound_timer = 3

\* the timer period had elapsed when the last cycle was entered
PeriodElapsed == call.fn = "cycle" /\ call.now - call.pre.last_clock >= TIME_60HZ

\* C25: within one cycle the timer update is applied before the fetched instruction
\* executes: in a cycle where the period has elapsed, GetDelayTimer stores the already
\* decremented delay timer in reg[x], and SetDelayTimer leaves the delay timer equal to
\* reg[x], not reg[x] - 1, at the end of the cycle.
C25_ClockBeforeExecute ==
    /\ (PeriodElapsed /\ Fetched("GetDelayTimer")) =>
        LET lowered == IF call.pre.delay_timer > 0 THEN call.pre.delay_timer - 1 ELSE 0
        IN  /\ registers[FieldX(call.raw_instruction)] = lowered
            /\ delay_timer = lowered
            /\ last_clock = call.now
    /\ (PeriodElapsed /\ Fetched("SetDelayTimer")) =>
        /\ delay_timer = call.pre.registers[FieldX(call.raw_instruction)]
        /\ registers = call.pre.registers
        /\ last_clock = call.now

\* C25's case: the period elapsed, the delay timer was 1 on entry, and GetDelayTimer
\* read 0.
C25_Witness ==
    /\ PeriodElapsed
    /\ Fetched("GetDelayTimer")
    /\ call.pre.delay_timer = 1
    /\ registers[1] = 0
    /\ delay_timer = 0

(***************************************************************************)
(* Specification of the skips and jumps: registers 0 and 1 hold values and *)
(* a program of the four conditional skips and a jump is run               *)
(***************************************************************************)
\* skip if V0 = 1; skip if V0 # 1; skip if V0 = V1; skip if V0 # V1; jump 0x200;
\* jump 0x202
SkipProgram == <<12289, 16385, 20496, 36880, 4608, 4610>>

SkipValues == {0, 1, 255}

InitSkip ==
    /\ \E a \in SkipValues, b \in SkipValues :
        /\ Holds([read_program(new(0), SkipProgram) EXCEPT
                    !.registers[0] = a, !.registers[1] = b])
        /\ input = <<a, b>>
    /\ halted = FALSE
    /\ overflow_checks \in BOOLEAN
    /\ time = 0
    /\ ncycles = 0
    /\ call = NoCall

SkipCycle ==
    /\ ncycles < MaxCycles
    /\ \E clock_gap \in ClockGaps : CycleCall(NoKey, clock_gap)

NextSkip == SkipCycle

SpecSkip == InitSkip /\ [][NextSkip]_vars

\* the program counter after a skip fetched at the last cycle's address
SkipTo(taken) == call.pre.pc + (IF taken THEN 4 ELSE 2)

\* C26: a cycle that fetches a conditional skip (SkipEQ, SkipNEQ, SkipEQR, SkipNEQR) at
\* address A ends with pc = A + 4 when its condition holds and pc = A + 2 otherwise,
\* changing no register; a cycle that fetches Jump nnn ends with pc = nnn and an
\* unchanged call stack.
C26_SkipsAndJumps ==
    LET w == call.raw_instruction
        before == call.pre.registers
    IN  /\ Fetched("SkipEQ") =>
            pc = SkipTo(before[FieldX(w)] = FieldKK(w)) /\ registers = before
        /\ Fetched("SkipNEQ") =>
            pc = SkipTo(before[FieldX(w)] # FieldKK(w)) /\ registers = before
        /\ Fetched("SkipEQR") =>
            pc = SkipTo(before[FieldX(w)] = before[FieldY(w)]) /\ registers = before
        /\ Fetched("SkipNEQR") =>
            pc = SkipTo(before[FieldX(w)] # before[FieldY(w)]) /\ registers = before
        /\ Fetched("Jump") =>
            pc = FieldNNN(w) /\ stack = call.pre.stack /\ registers = before

\* C26's case: SkipNEQR fetched at 0x206 with V0 # V1 ended at 0x20A.
C26_Witness ==
    /\ Fetched("SkipNEQR")
    /\ call.pre.pc = 518
    /\ call.pre.registers[0] # call.pre.registers[1]
    /\ pc = 522

\* the word matches a pattern of the opcode table
MatchesTable(w) ==
    CASE FieldTop(w) = 0 -> w \in {224, 238}
      [] FieldTop(w) \in {5, 9} -> FieldN(w) = 0
      [] FieldTop(w) = 8 -> FieldN(w) \in (0..7) \cup {14}
      [] FieldTop(w) = 11 -> FALSE
      [] FieldTop(w) = 14 -> FieldKK(w) \in {158, 161}
      [] FieldTop(w) = 15 -> FieldKK(w) \in {7, 10, 21, 24, 30, 41, 51, 85, 101}
      [] OTHER -> TRUE

\* C27: decode recognizes only words that match a pattern of the opcode table: every
\* other word is decoded to None, 0x0nnn other than 0x00E0 and 0x00EE, 0x5xyN and 0x9xyN
\* with N # 0, 0x8xyN with N in {8..D, F}, every 0xBnnn, 0xExkk with kk not in {9E, A1}
\* and 0xFxkk with kk outside the table included.
C27_OnlyTableWords ==
    (call.fn = "decode" /\ ~MatchesTable(call.instruction)) => call.ret = None

====
